---- MODULE Spec2Model ----
(***************************************************************************)
(* Engagement and content graph of the video-sharing backend:              *)
(* videos and comments with their likes/dislikes arrays, the comment       *)
(* thread (parentComment / replies) and the cascading deletes.             *)
(*                                                                         *)
(* The persistent store is modelled as two collections (videos, comments); *)
(* a document is a record, an array field is a sequence.  A handler is one *)
(* action in the sequential specifications; in the concurrent one it is    *)
(* split at its awaits: the findById read and the save write.              *)
(***************************************************************************)
EXTENDS Integers, Sequences, FiniteSets, TLC

\* ------------------------------------------------------------------ bounds
MaxVersion == 4      \* writes a document takes in the sequential runs
MaxComments == 3     \* comment ids ever allocated
MaxReqs == 3         \* concurrent requests in one run

\* ------------------------------------------------------------- population
Users == {"u1", "u2"}
Admins == {"u2"}                 \* users whose isAdmin flag is set
Anon == "anon"                   \* a request without a valid jwt cookie
Principals == Users \cup {Anon}
Accounts == Users \cup {"u3"}    \* the stored users; u3 sends no request
NoUser == "u0"                   \* a well-formed id of no stored user
VideoIds == {1, 2}
CommentIds == 1..MaxComments
NullId == 0                      \* parentComment: null
EngCommentIds == {1, 2}          \* comment ids named by engagement requests

VARIABLES videos, comments, users, nextId, reqs, last, scen, rec

vars == <<videos, comments, users, nextId, reqs, last, scen, rec>>

\* the user documents and the last recommended-videos answer: left alone
\* by the engagement and comment routes
subVars == <<users, rec>>

\* ---------------------------------------------------------------- helpers

\* arr.includes(u)
Includes(arr, u) == \E i \in 1..Len(arr) : arr[i] = u

\* arr.filter(id => id.toString() !== u.toString())
Without(arr, u) == SelectSeq(arr, LAMBDA x : x # u)

\* the elements of arr as a set
Range(arr) == {arr[i] : i \in 1..Len(arr)}

\* number of occurrences of u in arr
Count(arr, u) == Cardinality({i \in 1..Len(arr) : arr[i] = u})

\* Model.findById(id): membership of id in the collection
Exists(coll, id) == id \in DOMAIN coll

\* Model.findByIdAndDelete(id) / deleteMany: the collection without ids
Remove(coll, ids) == [i \in (DOMAIN coll) \ ids |-> coll[i]]

\* authenticate: a principal is attached only for a known user
Authenticated(p) == p \in Accounts

\* ownership rule: requester is the owner or has isAdmin
MutMayModifyAnyone(doc, p) == TRUE

MayModify(doc, p) == doc.user = p \/ p \in Admins

\* ------------------------------------------------ engagement, in memory
\* What a handler does to the document it read, up to its save(): the
\* arrays as the handler sees them (likes, dislikes), the paths it
\* reassigned (set*), the elements it pushed (push*), whether it calls
\* save(), and the status it answers when the save succeeds.

NoChange(doc, st) ==
  [status |-> st, likes |-> doc.likes, dislikes |-> doc.dislikes,
   setLikes |-> FALSE, setDislikes |-> FALSE,
   pushLikes |-> <<>>, pushDislikes |-> <<>>, save |-> FALSE]

MutLikeNoRemove(doc, u) ==
  IF Includes(doc.likes, u) THEN NoChange(doc, 400)
  ELSE [status |-> 200, likes |-> Append(doc.likes, u), dislikes |-> doc.dislikes,
        setLikes |-> FALSE, setDislikes |-> FALSE,
        pushLikes |-> <<u>>, pushDislikes |-> <<>>, save |-> TRUE]

LikeDoc(doc, u) ==
  IF Includes(doc.likes, u) THEN NoChange(doc, 400)
  ELSE [status |-> 200,
        likes |-> Append(doc.likes, u),
        dislikes |-> IF Includes(doc.dislikes, u)
                     THEN Without(doc.dislikes, u) ELSE doc.dislikes,
        setLikes |-> FALSE,
        setDislikes |-> Includes(doc.dislikes, u),
        pushLikes |-> <<u>>, pushDislikes |-> <<>>, save |-> TRUE]

MutUnlikeKeeps(doc, u) ==
  IF Includes(doc.likes, u)
  THEN [status |-> 200, likes |-> doc.likes, dislikes |-> doc.dislikes,
        setLikes |-> TRUE, setDislikes |-> FALSE,
        pushLikes |-> <<>>, pushDislikes |-> <<>>, save |-> TRUE]
  ELSE NoChange(doc, 200)

UnlikeDoc(doc, u) ==
  IF Includes(doc.likes, u)
  THEN [status |-> 200, likes |-> Without(doc.likes, u), dislikes |-> doc.dislikes,
        setLikes |-> TRUE, setDislikes |-> FALSE,
        pushLikes |-> <<>>, pushDislikes |-> <<>>, save |-> TRUE]
  ELSE NoChange(doc, 200)

MutDislikeNoCheck(doc, u) ==
  [status |-> 200,
   likes |-> IF Includes(doc.likes, u) THEN Without(doc.likes, u) ELSE doc.likes,
   dislikes |-> Append(doc.dislikes, u),
   setLikes |-> Includes(doc.likes, u), setDislikes |-> FALSE,
   pushLikes |-> <<>>, pushDislikes |-> <<u>>, save |-> TRUE]

MutDislikeKeepsLike(doc, u) ==
  IF Includes(doc.dislikes, u) THEN NoChange(doc, 400)
  ELSE [status |-> 200, likes |-> doc.likes, dislikes |-> Append(doc.dislikes, u),
        setLikes |-> FALSE, setDislikes |-> FALSE,
        pushLikes |-> <<>>, pushDislikes |-> <<u>>, save |-> TRUE]

DislikeDoc(doc, u) ==
  IF Includes(doc.dislikes, u) THEN NoChange(doc, 400)
  ELSE [status |-> 200,
        likes |-> IF Includes(doc.likes, u)
                  THEN Without(doc.likes, u) ELSE doc.likes,
        dislikes |-> Append(doc.dislikes, u),
        setLikes |-> Includes(doc.likes, u),
        setDislikes |-> FALSE,
        pushLikes |-> <<>>, pushDislikes |-> <<u>>, save |-> TRUE]

MutUndislikeAlwaysSaves(doc, u) ==
  [status |-> 200, likes |-> doc.likes, dislikes |-> Without(doc.dislikes, u),
   setLikes |-> FALSE, setDislikes |-> TRUE,
   pushLikes |-> <<>>, pushDislikes |-> <<>>, save |-> TRUE]

UndislikeDoc(doc, u) ==
  IF Includes(doc.dislikes, u)
  THEN [status |-> 200, likes |-> doc.likes, dislikes |-> Without(doc.dislikes, u),
        setLikes |-> FALSE, setDislikes |-> TRUE,
        pushLikes |-> <<>>, pushDislikes |-> <<>>, save |-> TRUE]
  ELSE NoChange(doc, 200)

EngOps == {"like", "unlike", "dislike", "undislike"}

Handle(op, doc, u) ==
  CASE op = "like" -> LikeDoc(doc, u)
    [] op = "unlike" -> UnlikeDoc(doc, u)
    [] op = "dislike" -> DislikeDoc(doc, u)
    [] op = "undislike" -> UndislikeDoc(doc, u)

\* ------------------------------------------------------------ doc.save()
MutSaveDropsOthers(cur, m) ==
  [cur EXCEPT !.likes = IF m.setLikes THEN m.likes ELSE m.pushLikes,
              !.dislikes = IF m.setDislikes THEN m.dislikes
                           ELSE cur.dislikes \o m.pushDislikes,
              !.v = cur.v + 1]

\* The update save() sends for the modified paths: a reassigned array is
\* $set to the in-memory array, a pushed element is $push-ed onto the
\* stored array.  Every save increments the version key __v; a save that
\* $sets an array also requires the stored __v to equal the one read, and
\* fails (VersionError, answered 500 by the catch) when it does not.

MutSaveConflictNever(cur, readV, m) == FALSE

SaveConflict(cur, readV, m) == (m.setLikes \/ m.setDislikes) /\ cur.v # readV

SaveDoc(cur, m) ==
  [cur EXCEPT !.likes = IF m.setLikes THEN m.likes ELSE cur.likes \o m.pushLikes,
              !.dislikes = IF m.setDislikes THEN m.dislikes
                           ELSE cur.dislikes \o m.pushDislikes,
              !.v = cur.v + 1]

\* ----------------------------------------------------------- responses
Resp(op, kind, id, a, st, l, d, pl, pd) ==
  [op |-> op, kind |-> kind, id |-> id, actor |-> a, status |-> st,
   likes |-> l, dislikes |-> d, preL |-> pl, preD |-> pd, n |-> 0, ref |-> 0]

\* the answer of a delete, with the number of comments its cascade removed
RespDel(op, kind, id, a, n) ==
  [Resp(op, kind, id, a, 200, 0, 0, 0, 0) EXCEPT !.n = n]

NoResp == Resp("none", "none", 0, Anon, 0, 0, 0, 0, 0)

Coll(kind) == IF kind = "video" THEN videos ELSE comments

\* the scenario monitor: how many calls of the sequence
\*   u1 like, u1 dislike, u2 like, u1 undislike   on video 1
\* the run so far consists of (-1: the run is not a prefix of it)
ScenCalls ==
  <<[op |-> "like", actor |-> "u1"], [op |-> "dislike", actor |-> "u1"],
    [op |-> "like", actor |-> "u2"], [op |-> "undislike", actor |-> "u1"]>>

ScenNext(s, kind, op, id, a) ==
  IF s >= 0 /\ s < Len(ScenCalls) /\ kind = "video" /\ id = 1
     /\ ScenCalls[s + 1] = [op |-> op, actor |-> a]
  THEN s + 1 ELSE -1

\* ------------------------------------- engagement handlers, sequential
\* One request running to completion: authenticate, findById, the
\* handler's checks and array edits, save(), res.json with the in-memory
\* array lengths.
Engage(kind, op, id, a) ==
  /\ UNCHANGED <<nextId, reqs, subVars>>
  /\ IF ~Authenticated(a)
     THEN /\ last' = Resp(op, kind, id, a, 401, 0, 0, 0, 0)
          /\ UNCHANGED <<videos, comments>>
     ELSE IF ~Exists(Coll(kind), id)
     THEN /\ last' = Resp(op, kind, id, a, 404, 0, 0, 0, 0)
          /\ UNCHANGED <<videos, comments>>
     ELSE LET doc == Coll(kind)[id]
              m == Handle(op, doc, a)
          IN /\ doc.v < MaxVersion
             /\ last' = Resp(op, kind, id, a, m.status, Len(m.likes), Len(m.dislikes),
                             Len(doc.likes), Len(doc.dislikes))
             /\ IF m.save
                THEN IF kind = "video"
                     THEN /\ videos' = [videos EXCEPT ![id] = SaveDoc(doc, m)]
                          /\ UNCHANGED comments
                     ELSE /\ comments' = [comments EXCEPT ![id] = SaveDoc(doc, m)]
                          /\ UNCHANGED videos
                ELSE UNCHANGED <<videos, comments>>

VideoLike ==
  \E id \in VideoIds, a \in Principals :
    /\ scen' = ScenNext(scen, "video", "like", id, a)
    /\ Engage("video", "like", id, a)

VideoUnlike ==
  \E id \in VideoIds, a \in Principals :
    /\ scen' = ScenNext(scen, "video", "unlike", id, a)
    /\ Engage("video", "unlike", id, a)

VideoDislike ==
  \E id \in VideoIds, a \in Principals :
    /\ scen' = ScenNext(scen, "video", "dislike", id, a)
    /\ Engage("video", "dislike", id, a)

VideoUndislike ==
  \E id \in VideoIds, a \in Principals :
    /\ scen' = ScenNext(scen, "video", "undislike", id, a)
    /\ Engage("video", "undislike", id, a)

CommentLike ==
  \E id \in EngCommentIds, a \in Principals :
    /\ scen' = ScenNext(scen, "comment", "like", id, a)
    /\ Engage("comment", "like", id, a)

CommentUnlike ==
  \E id \in EngCommentIds, a \in Principals :
    /\ scen' = ScenNext(scen, "comment", "unlike", id, a)
    /\ Engage("comment", "unlike", id, a)

CommentDislike ==
  \E id \in EngCommentIds, a \in Principals :
    /\ scen' = ScenNext(scen, "comment", "dislike", id, a)
    /\ Engage("comment", "dislike", id, a)

CommentUndislike ==
  \E id \in EngCommentIds, a \in Principals :
    /\ scen' = ScenNext(scen, "comment", "undislike", id, a)
    /\ Engage("comment", "undislike", id, a)

\* --------------------------------------------------------- documents
\* schema option trim: true on a String path
Trim(str) == IF str = " " THEN "" ELSE str

\* req.body.content: absent or empty, blank, a text
ContentInputs == {"", " ", "c1"}

NewVideo(owner) ==
  [user |-> owner, title |-> "t0", category |-> "Entertainment", views |-> 0,
   likes |-> <<>>, dislikes |-> <<>>, v |-> 0]

\* a user document: the two subscription arrays
NewUser == [subscribers |-> <<>>, subscribedTo |-> <<>>]

NoUsers == [u \in Accounts |-> NewUser]

NewComment(author, vid, parent) ==
  [user |-> author, video |-> vid, parentComment |-> parent, replies |-> <<>>,
   content |-> "c0", likes |-> <<>>, dislikes |-> <<>>, v |-> 0]

\* ------------------------------------------- sequential engagement runs
\* Video 1 (owner u1) with one top-level comment by u2; nobody has liked
\* or disliked either.  Video 2 and comments 2.. do not exist.
InitEng ==
  /\ videos = (1 :> NewVideo("u1"))
  /\ comments = (1 :> NewComment("u2", 1, NullId))
  /\ users = NoUsers
  /\ rec = <<>>
  /\ nextId = 2
  /\ reqs = <<>>
  /\ last = NoResp
  /\ scen = 0

NextEng ==
  \/ VideoLike \/ VideoUnlike \/ VideoDislike \/ VideoUndislike
  \/ CommentLike \/ CommentUnlike \/ CommentDislike \/ CommentUndislike

SpecEng == InitEng /\ [][NextEng]_vars

Spec == SpecEng

\* ------------------------------------- engagement handlers, concurrent
\* A request is split at its awaits.  The first step is authenticate,
\* findById and the synchronous code up to save(): it answers at once
\* (401, 404, 400, or 200 when a remove finds nothing to remove) or keeps
\* the document it read.  The second step is save() and the answer.
\* The requests of one run all name the same target.
NoSnap == [likes |-> <<>>, dislikes |-> <<>>, v |-> -1]

Snap(doc) == [likes |-> doc.likes, dislikes |-> doc.dislikes, v |-> doc.v]

Req(op, kind, id, a, pc, snap, st, l, d) ==
  [op |-> op, kind |-> kind, id |-> id, actor |-> a, pc |-> pc, snap |-> snap,
   status |-> st, likes |-> l, dislikes |-> d]

SameTarget(kind, id) ==
  IF reqs = <<>> THEN TRUE ELSE reqs[1].kind = kind /\ reqs[1].id = id

ReqStart(kind, op, id, a) ==
  /\ SameTarget(kind, id)
  /\ UNCHANGED <<videos, comments, nextId, last, scen, subVars>>
  /\ IF ~Authenticated(a)
     THEN reqs' = Append(reqs, Req(op, kind, id, a, "done", NoSnap, 401, 0, 0))
     ELSE IF ~Exists(Coll(kind), id)
     THEN reqs' = Append(reqs, Req(op, kind, id, a, "done", NoSnap, 404, 0, 0))
     ELSE LET doc == Coll(kind)[id]
              m == Handle(op, doc, a)
          IN IF m.save
             THEN reqs' = Append(reqs, Req(op, kind, id, a, "read", Snap(doc), 0, 0, 0))
             ELSE reqs' = Append(reqs, Req(op, kind, id, a, "done", Snap(doc), m.status,
                                           Len(m.likes), Len(m.dislikes)))

ConcTargets == {<<"video", 1>>, <<"comment", 1>>}

StartLike ==
  \E t \in ConcTargets, a \in Users :
    /\ Len(reqs) < MaxReqs
    /\ ReqStart(t[1], "like", t[2], a)

StartUnlike ==
  \E t \in ConcTargets, a \in Users :
    /\ Len(reqs) < MaxReqs
    /\ ReqStart(t[1], "unlike", t[2], a)

StartDislike ==
  \E t \in ConcTargets, a \in Users :
    /\ Len(reqs) < MaxReqs
    /\ ReqStart(t[1], "dislike", t[2], a)

StartUndislike ==
  \E t \in ConcTargets, a \in Users :
    /\ Len(reqs) < MaxReqs
    /\ ReqStart(t[1], "undislike", t[2], a)

\* await doc.save(), then res.json with the in-memory lengths; a failed
\* save is answered 500 by the catch
SaveStep(r) ==
  LET q == reqs[r]
      m == Handle(q.op, q.snap, q.actor)
  IN /\ q.pc = "read"
     /\ UNCHANGED <<nextId, last, scen, subVars>>
     /\ IF ~Exists(Coll(q.kind), q.id) \/ SaveConflict(Coll(q.kind)[q.id], q.snap.v, m)
        THEN /\ reqs' = [reqs EXCEPT ![r].pc = "done", ![r].status = 500]
             /\ UNCHANGED <<videos, comments>>
        ELSE /\ reqs' = [reqs EXCEPT ![r].pc = "done", ![r].status = m.status,
                                     ![r].likes = Len(m.likes),
                                     ![r].dislikes = Len(m.dislikes)]
             /\ IF q.kind = "video"
                THEN /\ videos' = [videos EXCEPT ![q.id] = SaveDoc(videos[q.id], m)]
                     /\ UNCHANGED comments
                ELSE /\ comments' = [comments EXCEPT ![q.id] = SaveDoc(comments[q.id], m)]
                     /\ UNCHANGED videos

Save == \E r \in 1..Len(reqs) : SaveStep(r)

InitConc == InitEng

NextConc == StartLike \/ StartUnlike \/ StartDislike \/ StartUndislike \/ Save

SpecConc == InitConc /\ [][NextConc]_vars

\* --------------------------------------------- comments and cascades
\* POST /videos/:id/comments.  content is the request's content field
\* ("": missing or empty; a blank text passes the handler's check, is
\* trimmed to "" by the schema and fails its required validator: the save
\* throws and the catch answers 500); parent is parentCommentId (NullId:
\* none).
\* The new comment gets the next unused id; a parent id that is not in the
\* collection is not rejected: the $push on it finds no document.
CreateComment(vid, a, content, parent) ==
  /\ nextId <= MaxComments
  /\ UNCHANGED <<reqs, scen, subVars>>
  /\ IF ~Authenticated(a)
     THEN /\ last' = Resp("createComment", "video", vid, a, 401, 0, 0, 0, 0)
          /\ UNCHANGED <<videos, comments, nextId>>
     ELSE IF content = ""
     THEN /\ last' = Resp("createComment", "video", vid, a, 400, 0, 0, 0, 0)
          /\ UNCHANGED <<videos, comments, nextId>>
     ELSE IF ~Exists(videos, vid)
     THEN /\ last' = Resp("createComment", "video", vid, a, 404, 0, 0, 0, 0)
          /\ UNCHANGED <<videos, comments, nextId>>
     ELSE IF Trim(content) = ""
     THEN /\ last' = Resp("createComment", "video", vid, a, 500, 0, 0, 0, 0)
          /\ UNCHANGED <<videos, comments, nextId>>
     ELSE LET saved == (nextId :> [NewComment(a, vid, parent)
                                    EXCEPT !.content = Trim(content)]) @@ comments
          IN /\ comments' =
                  IF parent # NullId /\ Exists(saved, parent)
                  THEN [saved EXCEPT ![parent].replies = Append(@, nextId)]
                  ELSE saved
             /\ nextId' = nextId + 1
             /\ last' = Resp("createComment", "video", vid, a, 201, 0, 0, 0, 0)
             /\ UNCHANGED videos

\* parentCommentId values a client can name: none, or an id handed out
\* before (its comment may have been deleted since)
ParentChoices == {NullId} \cup {c \in CommentIds : c < nextId}

AddComment ==
  \E vid \in VideoIds, a \in Principals, content \in ContentInputs,
     parent \in ParentChoices :
    CreateComment(vid, a, content, parent)

\* Comment.deleteMany({ parentComment: id })
MutRepliesOfNone(coll, id) == {}

RepliesOf(coll, id) == {c \in DOMAIN coll : coll[c].parentComment = id}

\* Comment.deleteMany({ video: id })
MutCommentsOnTopLevel(coll, vid) ==
  {c \in DOMAIN coll : coll[c].video = vid /\ coll[c].parentComment = NullId}

CommentsOn(coll, vid) == {c \in DOMAIN coll : coll[c].video = vid}

\* Comment.findByIdAndUpdate(parent, { $pull: { replies: id } })
MutPullReplyAll(coll, parent, id) ==
  IF Exists(coll, parent) THEN [coll EXCEPT ![parent].replies = <<>>] ELSE coll

PullReply(coll, parent, id) ==
  IF Exists(coll, parent)
  THEN [coll EXCEPT ![parent].replies = Without(@, id)]
  ELSE coll

\* DELETE /comments/:id
DeleteComment(id, a) ==
  /\ UNCHANGED <<videos, nextId, reqs, scen, subVars>>
  /\ IF ~Authenticated(a)
     THEN /\ last' = Resp("deleteComment", "comment", id, a, 401, 0, 0, 0, 0)
          /\ UNCHANGED comments
     ELSE IF ~Exists(comments, id)
     THEN /\ last' = Resp("deleteComment", "comment", id, a, 404, 0, 0, 0, 0)
          /\ UNCHANGED comments
     ELSE IF ~MayModify(comments[id], a)
     THEN /\ last' = Resp("deleteComment", "comment", id, a, 403, 0, 0, 0, 0)
          /\ UNCHANGED comments
     ELSE LET parent == comments[id].parentComment
              step1 == IF parent = NullId
                       THEN Remove(comments, RepliesOf(comments, id))
                       ELSE PullReply(comments, parent, id)
          IN /\ comments' = Remove(step1, {id})
             /\ last' = [RespDel("deleteComment", "comment", id, a,
                                 Cardinality(DOMAIN comments \ DOMAIN step1))
                           EXCEPT !.ref = parent]

RemoveComment == \E id \in CommentIds, a \in Principals : DeleteComment(id, a)

\* DELETE /videos/:id
DeleteVideo(id, a) ==
  /\ UNCHANGED <<nextId, reqs, scen, subVars>>
  /\ IF ~Authenticated(a)
     THEN /\ last' = Resp("deleteVideo", "video", id, a, 401, 0, 0, 0, 0)
          /\ UNCHANGED <<videos, comments>>
     ELSE IF ~Exists(videos, id)
     THEN /\ last' = Resp("deleteVideo", "video", id, a, 404, 0, 0, 0, 0)
          /\ UNCHANGED <<videos, comments>>
     ELSE IF ~MayModify(videos[id], a)
     THEN /\ last' = Resp("deleteVideo", "video", id, a, 403, 0, 0, 0, 0)
          /\ UNCHANGED <<videos, comments>>
     ELSE /\ videos' = Remove(videos, {id})
          /\ comments' = Remove(comments, CommentsOn(comments, id))
          /\ last' = RespDel("deleteVideo", "video", id, a,
                             Cardinality(DOMAIN comments \ DOMAIN comments'))

RemoveVideo == \E id \in VideoIds, a \in Principals : DeleteVideo(id, a)

\* Two videos (owners u1 and u2), no comment yet.
InitTree ==
  /\ videos = (1 :> NewVideo("u1")) @@ (2 :> NewVideo("u2"))
  /\ comments = <<>>
  /\ users = NoUsers
  /\ rec = <<>>
  /\ nextId = 1
  /\ reqs = <<>>
  /\ last = NoResp
  /\ scen = 0

NextTree == AddComment \/ RemoveComment \/ RemoveVideo

SpecTree == InitTree /\ [][NextTree]_vars

\* ------------------------------------------------------- subscriptions
\* The :channelId parameter is the text the client sent.  An id has one
\* lower-case hex spelling, the one toString() gives, and (having a hex
\* letter) upper-case spellings that name the same id.
ChannelParams == [id : Accounts \cup {NoUser}, upper : BOOLEAN]

\* subscriberId.toString()
IdToString(oid) == [id |-> oid, upper |-> FALSE]

\* the cast findById / $push apply to a string id: hex digits are read
\* without regard to case
CastId(param) == param.id

\* channelId === subscriberId.toString()
IsSelf(ch, a) == ch = IdToString(a)

\* User.findByIdAndUpdate(id, { $push: { field: x } })
PushSubscriber(us, c, a) ==
  IF c \in DOMAIN us THEN [us EXCEPT ![c].subscribers = Append(@, a)] ELSE us

MutPushSubscribedToNothing(us, a, c) == us

PushSubscribedTo(us, a, c) ==
  IF a \in DOMAIN us THEN [us EXCEPT ![a].subscribedTo = Append(@, c)] ELSE us

\* User.findByIdAndUpdate(id, { $pull: { field: x } })
PullSubscriber(us, c, a) ==
  IF c \in DOMAIN us THEN [us EXCEPT ![c].subscribers = Without(@, a)] ELSE us

MutPullSubscribedToNothing(us, a, c) == us

PullSubscribedTo(us, a, c) ==
  IF a \in DOMAIN us THEN [us EXCEPT ![a].subscribedTo = Without(@, c)] ELSE us

\* the answer of a subscription request; upper tells how the channel id
\* was spelled
RespSub(op, ch, a, st) ==
  [Resp(op, "user", CastId(ch), a, st, 0, 0, 0, 0) EXCEPT !.ref = IF ch.upper THEN 1 ELSE 0]

\* the subscribe checks, in the handler's order: 0 when they all pass
MutSubscribeNoDupCheck(us, ch, a) ==
  IF IsSelf(ch, a) THEN 400
  ELSE IF CastId(ch) \notin DOMAIN us THEN 404
  ELSE 0

SubscribeCheck(us, ch, a) ==
  IF IsSelf(ch, a) THEN 400
  ELSE IF CastId(ch) \notin DOMAIN us THEN 404
  ELSE IF Includes(us[CastId(ch)].subscribers, a) THEN 400
  ELSE 0

UnsubscribeCheck(us, ch, a) ==
  IF CastId(ch) \notin DOMAIN us THEN 404
  ELSE IF ~Includes(us[CastId(ch)].subscribers, a) THEN 400
  ELSE 0

\* POST /users/subscribe/:channelId, run to completion
Subscribe(ch, a) ==
  /\ UNCHANGED <<videos, comments, nextId, reqs, scen, rec>>
  /\ IF ~Authenticated(a)
     THEN /\ last' = RespSub("subscribe", ch, a, 401)
          /\ UNCHANGED users
     ELSE IF SubscribeCheck(users, ch, a) # 0
     THEN /\ last' = RespSub("subscribe", ch, a, SubscribeCheck(users, ch, a))
          /\ UNCHANGED users
     ELSE /\ users' = PushSubscribedTo(PushSubscriber(users, CastId(ch), a),
                                       a, CastId(ch))
          /\ last' = RespSub("subscribe", ch, a, 200)

\* DELETE /users/unsubscribe/:channelId, run to completion
Unsubscribe(ch, a) ==
  /\ UNCHANGED <<videos, comments, nextId, reqs, scen, rec>>
  /\ IF ~Authenticated(a)
     THEN /\ last' = RespSub("unsubscribe", ch, a, 401)
          /\ UNCHANGED users
     ELSE IF UnsubscribeCheck(users, ch, a) # 0
     THEN /\ last' = RespSub("unsubscribe", ch, a, UnsubscribeCheck(users, ch, a))
          /\ UNCHANGED users
     ELSE /\ users' = PullSubscribedTo(PullSubscriber(users, CastId(ch), a),
                                       a, CastId(ch))
          /\ last' = RespSub("unsubscribe", ch, a, 200)

DoSubscribe == \E ch \in ChannelParams, a \in Principals : Subscribe(ch, a)

DoUnsubscribe == \E ch \in ChannelParams, a \in Principals : Unsubscribe(ch, a)

\* Three users, nobody subscribed to anybody.
InitSub == InitTree

NextSub == DoSubscribe \/ DoUnsubscribe

SpecSub == InitSub /\ [][NextSub]_vars

\* ======================================================================
\*  Properties of the sequential engagement runs (SpecEng)
\* ======================================================================

\* the collection of a kind after the step
CollNext(kind) == IF kind = "video" THEN videos' ELSE comments'

\* the step is an engagement call op that passed authenticate and found
\* its target; last' is the answer of that call
EngStep(ops) ==
  /\ last'.op \in ops
  /\ Authenticated(last'.actor)
  /\ Exists(Coll(last'.kind), last'.id)

\* C1: sequential mutual exclusion -- in every state reached by calls that
\* each run to completion, no user is in both the likes and the dislikes
\* array of a video or of a comment.
C1_Disjoint ==
  /\ \A id \in DOMAIN videos :
        Range(videos[id].likes) \cap Range(videos[id].dislikes) = {}
  /\ \A id \in DOMAIN comments :
        Range(comments[id].likes) \cap Range(comments[id].dislikes) = {}

\* a like has just moved its actor out of dislikes while the other user
\* stays a member of dislikes
C1_Witness ==
  /\ last.op = "like" /\ last.status = 200 /\ last.kind = "video"
  /\ last.dislikes = last.preD - 1
  /\ Includes(videos[last.id].likes, last.actor)
  /\ videos[last.id].dislikes # <<>>

\* C4 as stated: after a successful like, an unlike by the same actor on
\* the same target brings the number of likes and of dislikes (stored and
\* answered) back to what they were before the like, whatever the state
\* before the like; an unlike by a non-member changes nothing.
C4_RoundTripStep ==
  LET doc == Coll(last'.kind)[last'.id]
      doc2 == CollNext(last'.kind)[last'.id]
  IN EngStep({"unlike"}) =>
       /\ (/\ last.op = "like" /\ last.status = 200
           /\ last.kind = last'.kind /\ last.id = last'.id
           /\ last.actor = last'.actor)
          => /\ Len(doc2.likes) = last.preL /\ Len(doc2.dislikes) = last.preD
             /\ last'.likes = last.preL /\ last'.dislikes = last.preD
       /\ ~Includes(doc.likes, last'.actor)
          => /\ doc2 = doc
             /\ last'.likes = Len(doc.likes) /\ last'.dislikes = Len(doc.dislikes)

C4_Original == [][C4_RoundTripStep]_vars

\* C4 amended: like then unlike restores the number of likes; it restores
\* the number of dislikes when the like did not remove the actor from
\* dislikes, and leaves it one lower than before the like when it did.
C4_AmendedStep ==
  LET doc == Coll(last'.kind)[last'.id]
      doc2 == CollNext(last'.kind)[last'.id]
  IN EngStep({"unlike"}) =>
       /\ (/\ last.op = "like" /\ last.status = 200
           /\ last.kind = last'.kind /\ last.id = last'.id
           /\ last.actor = last'.actor)
          => /\ last'.status = 200
             /\ Len(doc2.likes) = last.preL /\ last'.likes = last.preL
             /\ Len(doc2.dislikes) = last.dislikes
             /\ last'.dislikes = last.dislikes
             /\ last.dislikes \in {last.preD, last.preD - 1}
             /\ ~Includes(doc.dislikes, last.actor)
       /\ ~Includes(doc.likes, last'.actor)
          => /\ doc2 = doc
             /\ last'.status = 200
             /\ last'.likes = Len(doc.likes) /\ last'.dislikes = Len(doc.dislikes)

C4_RoundTrip == [][C4_AmendedStep]_vars

\* an unlike has just removed its actor from a comment's likes while the
\* other user dislikes the comment
C4_Witness ==
  /\ last.op = "unlike" /\ last.status = 200 /\ last.kind = "comment"
  /\ last.likes = last.preL - 1
  /\ last.dislikes = 1

\* C5: on an existing target, like answers 400 exactly when the actor is
\* already in likes and dislike exactly when the actor is already in
\* dislikes; a 400 leaves the document untouched (no write); otherwise
\* the answer is 200, the actor is added to the requested array and gone
\* from the opposite one, one write is made, and the answered counts are
\* the sizes of the stored arrays.
C5_AddStep ==
  LET a == last'.actor
      doc == Coll(last'.kind)[last'.id]
      doc2 == CollNext(last'.kind)[last'.id]
      own(d) == IF last'.op = "like" THEN d.likes ELSE d.dislikes
      opp(d) == IF last'.op = "like" THEN d.dislikes ELSE d.likes
  IN EngStep({"like", "dislike"}) =>
       /\ last'.status = 400 <=> Includes(own(doc), a)
       /\ last'.status = 400 => doc2 = doc
       /\ last'.status # 400 =>
            /\ last'.status = 200
            /\ Range(own(doc2)) = Range(own(doc)) \cup {a}
            /\ Range(opp(doc2)) = Range(opp(doc)) \ {a}
            /\ Count(own(doc2), a) = 1
            /\ doc2.v = doc.v + 1
            /\ last'.likes = Len(doc2.likes)
            /\ last'.dislikes = Len(doc2.dislikes)

C5_AddContract == [][C5_AddStep]_vars

\* a dislike has just been refused with 400 on a comment
C5_Witness ==
  /\ last.op = "dislike" /\ last.status = 400 /\ last.kind = "comment"
  /\ Includes(comments[last.id].dislikes, last.actor)

\* C6: on an existing target unlike and undislike always answer 200; they
\* write exactly when the actor was a member; afterwards the actor is not
\* a member, and a call by a non-member leaves the document as it is (so
\* a second call changes nothing); the opposite array is never changed.
C6_RemoveStep ==
  LET a == last'.actor
      doc == Coll(last'.kind)[last'.id]
      doc2 == CollNext(last'.kind)[last'.id]
      own(d) == IF last'.op = "unlike" THEN d.likes ELSE d.dislikes
      opp(d) == IF last'.op = "unlike" THEN d.dislikes ELSE d.likes
  IN EngStep({"unlike", "undislike"}) =>
       /\ last'.status = 200
       /\ doc2.v # doc.v <=> Includes(own(doc), a)
       /\ ~Includes(own(doc), a) => doc2 = doc
       /\ ~Includes(own(doc2), a)
       /\ opp(doc2) = opp(doc)

C6_RemoveContract == [][C6_RemoveStep]_vars

\* an undislike by a user who is not in dislikes has just answered 200
\* on a video that another user dislikes and the caller likes
C6_Witness ==
  /\ last.op = "undislike" /\ last.status = 200 /\ last.kind = "video"
  /\ Exists(videos, last.id)
  /\ last.dislikes = last.preD /\ last.dislikes = 1
  /\ Includes(videos[last.id].likes, last.actor)

\* C7: an engagement call by actor a changes nobody else's membership in
\* the target's likes or dislikes, leaves the other documents alone, and
\* answers the sizes of the stored arrays; the sequence u1 like,
\* u1 dislike, u2 like, u1 undislike on the fresh video 1 answers
\* (1,0), (0,1), (1,1), (1,0).
C7_FrameStep ==
  LET a == last'.actor
      doc == Coll(last'.kind)[last'.id]
      doc2 == CollNext(last'.kind)[last'.id]
  IN EngStep(EngOps) =>
       /\ \A b \in Users \ {a} :
            /\ Count(doc2.likes, b) = Count(doc.likes, b)
            /\ Count(doc2.dislikes, b) = Count(doc.dislikes, b)
       /\ \A id \in DOMAIN videos :
            (last'.kind # "video" \/ id # last'.id) => videos'[id] = videos[id]
       /\ \A id \in DOMAIN comments :
            (last'.kind # "comment" \/ id # last'.id) => comments'[id] = comments[id]
       /\ last'.likes = Len(doc2.likes)
       /\ last'.dislikes = Len(doc2.dislikes)

ScenAnswers == <<<<1, 0>>, <<0, 1>>, <<1, 1>>, <<1, 0>>>>

C7_ScenarioOK ==
  scen >= 1 => /\ last.status = 200
               /\ <<last.likes, last.dislikes>> = ScenAnswers[scen]
               /\ <<Len(videos[1].likes), Len(videos[1].dislikes)>> = ScenAnswers[scen]

C7_Frame == [][C7_FrameStep]_vars /\ []C7_ScenarioOK

\* the four calls of the scenario have been made, in order, from the
\* fresh video
C7_Witness == scen = 4 /\ last.op = "undislike" /\ last.actor = "u1"

\* ======================================================================
\*  Properties of the concurrent engagement runs (SpecConc)
\* ======================================================================

\* C2: with the read and the save of each request interleaving with those
\* of the others, no stored video or comment has a user in both likes and
\* dislikes.
C2_ConcDisjoint ==
  \A u \in Users :
    /\ \A id \in DOMAIN videos :
         ~(Includes(videos[id].likes, u) /\ Includes(videos[id].dislikes, u))
    /\ \A id \in DOMAIN comments :
         ~(Includes(comments[id].likes, u) /\ Includes(comments[id].dislikes, u))

\* request r is an add (like / dislike) whose actor was in the opposite
\* array of the document it read
Moves(q) ==
  \/ q.op = "like" /\ Includes(q.snap.dislikes, q.actor)
  \/ q.op = "dislike" /\ Includes(q.snap.likes, q.actor)

\* C3: the save of a dislike by an actor who was in likes (of a like by
\* an actor who was in dislikes) is one step of the store: before it the
\* actor is in the old array only, after it in the new array only, and
\* the document has taken exactly one write; a save that fails leaves the
\* document as it was.
C3_MoveStep ==
  \A r \in 1..Len(reqs) :
    LET q == reqs[r]
        doc == Coll(q.kind)[q.id]
        doc2 == CollNext(q.kind)[q.id]
        own(d) == IF q.op = "like" THEN d.likes ELSE d.dislikes
        opp(d) == IF q.op = "like" THEN d.dislikes ELSE d.likes
    IN (q.pc = "read" /\ reqs'[r].pc = "done" /\ Moves(q)) =>
         IF reqs'[r].status = 200
         THEN /\ Includes(opp(doc), q.actor) /\ ~Includes(own(doc), q.actor)
              /\ ~Includes(opp(doc2), q.actor) /\ Includes(own(doc2), q.actor)
              /\ doc2.v = doc.v + 1
         ELSE doc2 = doc

C3_AtomicMove == [][C3_MoveStep]_vars

\* a dislike that read its actor in likes has saved while another
\* request was in flight, and the actor is now in dislikes only
C3_Witness ==
  \E r \in 1..Len(reqs) :
    LET q == reqs[r]
    IN /\ q.op = "dislike" /\ q.pc = "done" /\ q.status = 200 /\ Moves(q)
       /\ q.kind = "video"
       /\ Includes(videos[q.id].dislikes, q.actor)
       /\ ~Includes(videos[q.id].likes, q.actor)
       /\ \E r2 \in 1..Len(reqs) : reqs[r2].pc = "read"

\* C8: when exactly two requests were made, both likes (both dislikes) by
\* the same actor, both having read the target before either wrote, and
\* both have answered, the actor is in that array exactly once and the
\* array is one longer than the one they read.
C8_ExactlyOnce ==
  (/\ Len(reqs) = 2
   /\ reqs[1].op \in {"like", "dislike"} /\ reqs[2].op = reqs[1].op
   /\ reqs[1].actor = reqs[2].actor
   /\ reqs[1].pc = "done" /\ reqs[2].pc = "done"
   /\ reqs[1].snap = reqs[2].snap /\ reqs[1].snap.v = 0)
  => LET q == reqs[1]
         doc == Coll(q.kind)[q.id]
         own(d) == IF q.op = "like" THEN d.likes ELSE d.dislikes
     IN /\ Count(own(doc), q.actor) = 1
        /\ Len(own(doc)) = Len(own(q.snap)) + 1

\* ======================================================================
\*  Properties of the comment tree runs (SpecTree)
\* ======================================================================

\* C9: once a delete-video request on V has answered 200, V is not in the
\* store and no comment, top-level or reply, has its video field equal
\* to V.
C9_VideoCascade ==
  (last.op = "deleteVideo" /\ last.status = 200) =>
     /\ last.id \notin DOMAIN videos
     /\ \A c \in DOMAIN comments : comments[c].video # last.id

\* a delete-video has removed two comments, and a comment of the other
\* video still lists one of them among its replies: a reply was among
\* the removed
C9_Witness ==
  /\ last.op = "deleteVideo" /\ last.status = 200 /\ last.n = 2
  /\ \E c \in DOMAIN comments :
       \E i \in 1..Len(comments[c].replies) :
         comments[c].replies[i] \notin DOMAIN comments

\* C10: a successful delete of a top-level comment removes from the store
\* exactly that comment and the comments whose parentComment is that
\* comment, and leaves every other comment as it was.
C10_CascadeStep ==
  (/\ last'.op = "deleteComment" /\ last'.status = 200
   /\ Authenticated(last'.actor)
   /\ last'.id \in DOMAIN comments
   /\ comments[last'.id].parentComment = NullId)
  => LET gone == {last'.id} \cup
                 {c \in DOMAIN comments : comments[c].parentComment = last'.id}
     IN /\ DOMAIN comments' = DOMAIN comments \ gone
        /\ \A c \in DOMAIN comments' : comments'[c] = comments[c]
        /\ videos' = videos

C10_ReplyCascade == [][C10_CascadeStep]_vars

\* a top-level comment with two replies has just been deleted
C10_Witness ==
  /\ last.op = "deleteComment" /\ last.status = 200 /\ last.n = 2
  /\ last.id \notin DOMAIN comments
  /\ \A c \in DOMAIN comments : comments[c].parentComment # last.id

\* C11: a successful delete of a reply whose parent is in the store
\* removes from the store that reply and nothing else; the parent stays,
\* its replies list is its previous list without the deleted id, and every
\* other comment (the other replies of the parent among them) is unchanged.
C11_ReplyStep ==
  (/\ last'.op = "deleteComment" /\ last'.status = 200
   /\ last'.id \in DOMAIN comments
   /\ comments[last'.id].parentComment # NullId
   /\ comments[last'.id].parentComment \in DOMAIN comments)
  => LET id == last'.id
         p == comments[id].parentComment
     IN /\ DOMAIN comments' = DOMAIN comments \ {id}
        /\ \A i \in 1..Len(comments'[p].replies) : comments'[p].replies[i] # id
        /\ comments'[p].replies =
             SelectSeq(comments[p].replies, LAMBDA x : x # id)
        /\ Range(comments'[p].replies) = Range(comments[p].replies) \ {id}
        /\ [comments'[p] EXCEPT !.replies = comments[p].replies] = comments[p]
        /\ \A c \in DOMAIN comments' : c # p => comments'[c] = comments[c]
        /\ videos' = videos

C11_ReplyOnly == [][C11_ReplyStep]_vars

\* one of the two replies of comment 1 has just been deleted: the other
\* reply is still there and is the only entry of the parent's list
C11_Witness ==
  /\ last.op = "deleteComment" /\ last.status = 200 /\ last.ref # NullId
  /\ last.ref \in DOMAIN comments
  /\ last.id \notin DOMAIN comments
  /\ \E c \in DOMAIN comments :
       /\ comments[c].parentComment = last.ref
       /\ comments[last.ref].replies = <<c>>

\* ======================================================================
\*  Properties of the subscription runs (SpecSub)
\* ======================================================================

\* C12: a subscribe request whose channel is the requester fails and
\* writes nothing, and in every state no user is in its own subscribers
\* or subscribedTo array.
C12_SelfStep ==
  (last'.op = "subscribe" /\ Authenticated(last'.actor) /\ last'.id = last'.actor)
  => (last'.status = 400 /\ users' = users)

C12_NoSelfEdge ==
  \A u \in Accounts : /\ ~Includes(users[u].subscribers, u)
                      /\ ~Includes(users[u].subscribedTo, u)

C12_NoSelfSubscription == [][C12_SelfStep]_vars /\ []C12_NoSelfEdge

\* the arrays of the edge a -> c
HasEdge(us, a, c) == Includes(us[c].subscribers, a) /\ Includes(us[a].subscribedTo, c)

NoEdge(us, a, c) == ~Includes(us[c].subscribers, a) /\ ~Includes(us[a].subscribedTo, c)

\* the store with the edge a -> c appended to both arrays
WithEdge(us, a, c) ==
  [us EXCEPT ![c].subscribers = Append(@, a), ![a].subscribedTo = Append(@, c)]

\* C13: for distinct users A and B, a successful subscribe A to B starts
\* from a state without the edge and appends it to both arrays, touching
\* nothing else; the unsubscribe A from B that follows it succeeds,
\* leaves A out of B.subscribers and B out of A.subscribedTo, and gives
\* back the store the subscribe started from (the store after the
\* unsubscribe, with the edge appended again, is the store before it).
C13_RoundTripStep ==
  LET a == last'.actor
      c == last'.id
  IN /\ (last'.op = "subscribe" /\ last'.status = 200 /\ a # c)
        => /\ NoEdge(users, a, c)
           /\ users' = WithEdge(users, a, c)
     /\ (/\ last.op = "subscribe" /\ last.status = 200 /\ last.actor # last.id
         /\ last'.op = "unsubscribe" /\ a = last.actor /\ c = last.id)
        => /\ last'.status = 200
           /\ NoEdge(users', a, c)
           /\ WithEdge(users', a, c) = users

C13_RoundTrip == [][C13_RoundTripStep]_vars

\* an unsubscribe u1 from u2 has just succeeded while u2 is subscribed to
\* u3 and to u1
C13_Witness ==
  /\ last.op = "unsubscribe" /\ last.status = 200
  /\ last.actor = "u1" /\ last.id = "u2"
  /\ users["u2"].subscribedTo = <<"u3", "u1">>
  /\ users["u1"].subscribers = <<"u2">>
  /\ users["u2"].subscribers = <<>>

\* C14: in every state of the sequential runs, for all users A and B the
\* number of entries A in B.subscribers equals the number of entries B in
\* A.subscribedTo, and is at most one.
C14_InverseViews ==
  \A a \in Accounts, c \in Accounts :
    /\ Count(users[c].subscribers, a) = Count(users[a].subscribedTo, c)
    /\ Count(users[c].subscribers, a) <= 1

\* u1 and u2 are both subscribed to u3, and u2 to u1
C14_Witness ==
  /\ Range(users["u3"].subscribers) = {"u1", "u2"}
  /\ users["u1"].subscribers = <<"u2">>
  /\ Len(users["u2"].subscribedTo) = 2

\* C16: for a requester A and an existing channel B other than A,
\* subscribe answers 400 exactly when the edge is there and unsubscribe
\* answers 400 exactly when it is not; both then leave every user
\* document as it was; otherwise they answer 200.  A request naming an id
\* of no stored user answers 404 and writes nothing.
C16_ErrorStep ==
  LET a == last'.actor
      c == last'.id
  IN (last'.op \in {"subscribe", "unsubscribe"} /\ Authenticated(a) /\ a # c) =>
       IF c \notin Accounts
       THEN last'.status = 404 /\ users' = users
       ELSE /\ last'.status \in {200, 400}
            /\ last'.op = "subscribe" => (last'.status = 400 <=> HasEdge(users, a, c))
            /\ last'.op = "unsubscribe" => (last'.status = 400 <=> NoEdge(users, a, c))
            /\ last'.status = 400 => users' = users
            /\ last'.status = 200 => users' # users

C16_ErrorContract == [][C16_ErrorStep]_vars

\* a second subscribe u1 to u3 has just been refused
C16_Witness ==
  /\ last.op = "subscribe" /\ last.status = 400
  /\ last.actor = "u1" /\ last.id = "u3"
  /\ Includes(users["u3"].subscribers, "u1")

\* ======================================================================
\*  Concurrent subscription requests: each await is one step
\* ======================================================================

\* a subscription request in flight: pc "channel" is before the update of
\* the channel document, "subscriber" before the update of the
\* requester's document
SubReq(op, ch, a, pc, st) ==
  [op |-> op, kind |-> "user", ch |-> ch, id |-> CastId(ch), actor |-> a,
   pc |-> pc, status |-> st]

\* all requests of a run name the same subscriber and the same channel
SamePair(ch, a) ==
  IF reqs = <<>> THEN TRUE
  ELSE reqs[1].actor = a /\ reqs[1].id = CastId(ch)

\* authenticate, the checks on the channel document just read, and the
\* early answers
SubStart(op, ch, a) ==
  LET st == IF ~Authenticated(a) THEN 401
            ELSE IF op = "subscribe" THEN SubscribeCheck(users, ch, a)
            ELSE UnsubscribeCheck(users, ch, a)
  IN /\ SamePair(ch, a)
     /\ UNCHANGED <<videos, comments, users, nextId, last, scen, rec>>
     /\ reqs' = Append(reqs, IF st # 0 THEN SubReq(op, ch, a, "done", st)
                             ELSE SubReq(op, ch, a, "channel", 0))

StartSubscribe ==
  \E ch \in ChannelParams, a \in Principals :
    /\ Len(reqs) < MaxReqs
    /\ SubStart("subscribe", ch, a)

StartUnsubscribe ==
  \E ch \in ChannelParams, a \in Principals :
    /\ Len(reqs) < MaxReqs
    /\ SubStart("unsubscribe", ch, a)

\* await User.findByIdAndUpdate(channelId, ...)
WriteChannel ==
  \E r \in 1..Len(reqs) :
    LET q == reqs[r]
    IN /\ q.pc = "channel"
       /\ users' = IF q.op = "subscribe" THEN PushSubscriber(users, q.id, q.actor)
                   ELSE PullSubscriber(users, q.id, q.actor)
       /\ reqs' = [reqs EXCEPT ![r].pc = "subscriber"]
       /\ UNCHANGED <<videos, comments, nextId, last, scen, rec>>

\* await User.findByIdAndUpdate(subscriberId, ...), then res.json
WriteSubscriber ==
  \E r \in 1..Len(reqs) :
    LET q == reqs[r]
    IN /\ q.pc = "subscriber"
       /\ users' = IF q.op = "subscribe" THEN PushSubscribedTo(users, q.actor, q.id)
                   ELSE PullSubscribedTo(users, q.actor, q.id)
       /\ reqs' = [reqs EXCEPT ![r].pc = "done", ![r].status = 200]
       /\ UNCHANGED <<videos, comments, nextId, last, scen, rec>>

InitSubConc == InitSub

NextSubConc == StartSubscribe \/ StartUnsubscribe \/ WriteChannel \/ WriteSubscriber

SpecSubConc == InitSubConc /\ [][NextSubConc]_vars

\* C15: when every concurrent request for one (subscriber, channel) pair
\* has completed, for all distinct users A and B the entry A occurs in
\* B.subscribers as often as B occurs in A.subscribedTo, and at most once.
C15_ConcInverseViews ==
  (\A r \in 1..Len(reqs) : reqs[r].pc = "done") =>
    \A a \in Accounts, c \in Accounts :
      a # c => /\ Count(users[c].subscribers, a) = Count(users[a].subscribedTo, c)
               /\ Count(users[c].subscribers, a) <= 1

\* ======================================================================
\*  Updates and deletes by owners, admins and others
\* ======================================================================

\* enum of videoSchema.category
Categories ==
  {"Entertainment", "Music", "Sports", "Gaming", "Education",
   "Science & Technology", "Travel", "News", "Comedy", "Vlogs",
   "Documentaries", "Food", "Fashion", "Beauty", "Pets & Animals"}

\* req.body.title: absent or empty, blank, a text
TitleInputs == {"", " ", "t1"}

\* req.body.category: absent or empty, a member of the enum, another text
CategoryInputs == {"", "Music", "Bogus"}

\* x || y on strings
OrElse(x, y) == IF x = "" THEN y ELSE x

\* video.validate() at save: title required after trim, category in enum
ValidVideo(doc) == doc.title # "" /\ doc.category \in Categories

\* PUT /videos/:id.  description and tags are replaced the same way as
\* title and have no validator that can fail; they are left out.
UpdateVideo(id, a, title, category) ==
  /\ UNCHANGED <<comments, nextId, reqs, scen, subVars>>
  /\ IF ~Authenticated(a)
     THEN /\ last' = Resp("updateVideo", "video", id, a, 401, 0, 0, 0, 0)
          /\ UNCHANGED videos
     ELSE IF ~Exists(videos, id)
     THEN /\ last' = Resp("updateVideo", "video", id, a, 404, 0, 0, 0, 0)
          /\ UNCHANGED videos
     ELSE IF ~MayModify(videos[id], a)
     THEN /\ last' = Resp("updateVideo", "video", id, a, 403, 0, 0, 0, 0)
          /\ UNCHANGED videos
     ELSE LET doc == [videos[id] EXCEPT !.title = Trim(OrElse(title, @)),
                                        !.category = OrElse(category, @)]
          IN IF ~ValidVideo(doc)
             THEN /\ last' = Resp("updateVideo", "video", id, a, 500, 0, 0, 0, 0)
                  /\ UNCHANGED videos
             ELSE /\ videos' = [videos EXCEPT ![id] = doc]
                  /\ last' = Resp("updateVideo", "video", id, a, 200, 0, 0, 0, 0)

EditVideo ==
  \E id \in VideoIds, a \in Principals, title \in TitleInputs,
     category \in CategoryInputs :
    UpdateVideo(id, a, title, category)

\* PUT /comments/:id
MutUpdateCommentWritesFirst(id, a, content) ==
  /\ UNCHANGED <<videos, nextId, reqs, scen, subVars>>
  /\ Authenticated(a) /\ Exists(comments, id) /\ Trim(content) # ""
  /\ comments' = [comments EXCEPT ![id].content = Trim(content)]
  /\ last' = Resp("updateComment", "comment", id, a,
                  IF MayModify(comments[id], a) THEN 200 ELSE 403, 0, 0, 0, 0)

UpdateComment(id, a, content) ==
  /\ UNCHANGED <<videos, nextId, reqs, scen, subVars>>
  /\ IF ~Authenticated(a)
     THEN /\ last' = Resp("updateComment", "comment", id, a, 401, 0, 0, 0, 0)
          /\ UNCHANGED comments
     ELSE IF content = ""
     THEN /\ last' = Resp("updateComment", "comment", id, a, 400, 0, 0, 0, 0)
          /\ UNCHANGED comments
     ELSE IF ~Exists(comments, id)
     THEN /\ last' = Resp("updateComment", "comment", id, a, 404, 0, 0, 0, 0)
          /\ UNCHANGED comments
     ELSE IF ~MayModify(comments[id], a)
     THEN /\ last' = Resp("updateComment", "comment", id, a, 403, 0, 0, 0, 0)
          /\ UNCHANGED comments
     ELSE IF Trim(content) = ""
     THEN /\ last' = Resp("updateComment", "comment", id, a, 500, 0, 0, 0, 0)
          /\ UNCHANGED comments
     ELSE /\ comments' = [comments EXCEPT ![id].content = Trim(content)]
          /\ last' = Resp("updateComment", "comment", id, a, 200, 0, 0, 0, 0)

EditComment ==
  \E id \in CommentIds, a \in Principals, content \in ContentInputs :
    UpdateComment(id, a, content)

\* Two videos (owners u1 and u2); on video 1 a comment of u1 with a reply
\* of u2, on video 2 a comment of u2.
InitAuth ==
  /\ videos = (1 :> NewVideo("u1")) @@ (2 :> NewVideo("u2"))
  /\ comments = (1 :> [NewComment("u1", 1, NullId) EXCEPT !.replies = <<2>>])
                @@ (2 :> NewComment("u2", 1, 1))
                @@ (3 :> NewComment("u2", 2, NullId))
  /\ users = NoUsers
  /\ rec = <<>>
  /\ nextId = 4
  /\ reqs = <<>>
  /\ last = NoResp
  /\ scen = 0

NextAuth == EditVideo \/ EditComment \/ RemoveVideo \/ RemoveComment

SpecAuth == InitAuth /\ [][NextAuth]_vars

\* ----------------------------------------------------------------------
\*  Properties of the update and delete runs (SpecAuth)
\* ----------------------------------------------------------------------

\* an update request whose fields pass the handler's and the schema's
\* validation
GoodVideoFields(title, category) ==
  Trim(title) = title /\ (category = "" \/ category \in Categories)

GoodContent(content) == Trim(content) # ""

\* C17: for an authenticated requester, a stored video or comment and,
\* for updates, fields that pass validation: the update or delete answers
\* 200 and takes effect when the requester is the owner/author or an
\* admin; for every other requester it answers 403 and leaves all videos
\* and all comments (the entity, its comments, its replies, its parent's
\* replies list) as they were.
C17_AuthStep ==
  LET id == last'.id
      a == last'.actor
      refused == last'.status = 403 /\ videos' = videos /\ comments' = comments
  IN /\ (last'.op = "updateVideo" /\ a \in Users /\ Exists(videos, id)) =>
          \A t \in TitleInputs, c \in CategoryInputs :
            (UpdateVideo(id, a, t, c) /\ GoodVideoFields(t, c)) =>
              IF videos[id].user = a \/ a \in Admins
              THEN /\ last'.status = 200
                   /\ videos'[id].title = (IF t = "" THEN videos[id].title ELSE t)
                   /\ videos'[id].category = (IF c = "" THEN videos[id].category ELSE c)
              ELSE refused
     /\ (last'.op = "deleteVideo" /\ a \in Users /\ Exists(videos, id)) =>
          IF videos[id].user = a \/ a \in Admins
          THEN last'.status = 200 /\ ~Exists(videos', id)
          ELSE refused
     /\ (last'.op = "updateComment" /\ a \in Users /\ Exists(comments, id)) =>
          \A c \in ContentInputs :
            (UpdateComment(id, a, c) /\ GoodContent(c)) =>
              IF comments[id].user = a \/ a \in Admins
              THEN last'.status = 200 /\ comments'[id].content = c
              ELSE refused
     /\ (last'.op = "deleteComment" /\ a \in Users /\ Exists(comments, id)) =>
          IF comments[id].user = a \/ a \in Admins
          THEN last'.status = 200 /\ ~Exists(comments', id)
          ELSE refused

MaxLoad == 1

\* POST /videos/:id/view: no authenticate middleware; the answer carries
\* the new count
IncrementView(id, a) ==
  /\ UNCHANGED <<comments, nextId, reqs, scen, subVars>>
  /\ IF ~Exists(videos, id)
     THEN /\ last' = Resp("view", "video", id, a, 404, 0, 0, 0, 0)
          /\ UNCHANGED videos
     ELSE /\ videos' = [videos EXCEPT ![id].views = @ + 1]
          /\ last' = [Resp("view", "video", id, a, 200, 0, 0, 0, 0)
                        EXCEPT !.n = videos[id].views + 1]

AddView == \E id \in VideoIds, a \in Principals : IncrementView(id, a)

RECURSIVE SumOf(_)
SumOf(f) ==
  IF DOMAIN f = {} THEN 0
  ELSE LET x == CHOOSE y \in DOMAIN f : TRUE
       IN f[x] + SumOf([y \in DOMAIN f \ {x} |-> f[y]])

\* how much the runs of SpecAll have written so far: saves of arrays,
\* views, edited fields, subscription entries, comments created,
\* documents deleted
Load ==
  SumOf([i \in DOMAIN videos |->
           videos[i].v + videos[i].views
           + (IF videos[i].title = "t0" THEN 0 ELSE 1)
           + (IF videos[i].category = "Entertainment" THEN 0 ELSE 1)])
  + SumOf([c \in DOMAIN comments |->
             comments[c].v + (IF comments[c].content = "c0" THEN 0 ELSE 1)])
  + SumOf([u \in Accounts |-> Len(users[u].subscribers)])
  + (nextId - 2)
  + Cardinality(VideoIds \ DOMAIN videos)
  + ((nextId - 1) - Cardinality(DOMAIN comments))

\* once the store has taken MaxLoad writes, only requests that write
\* nothing are followed further
Room == UNCHANGED <<videos, comments, users, nextId>> \/ Load < MaxLoad

\* Two videos (owners u1 and u2) and a comment of u2 on video 1.
InitAll ==
  /\ videos = (1 :> NewVideo("u1")) @@ (2 :> NewVideo("u2"))
  /\ comments = (1 :> NewComment("u2", 1, NullId))
  /\ users = NoUsers
  /\ rec = <<>>
  /\ nextId = 2
  /\ reqs = <<>>
  /\ last = NoResp
  /\ scen = 0

NextAll ==
  \/ (VideoLike /\ Room) \/ (VideoUnlike /\ Room)
  \/ (VideoDislike /\ Room) \/ (VideoUndislike /\ Room)
  \/ (CommentLike /\ Room) \/ (CommentUnlike /\ Room)
  \/ (CommentDislike /\ Room) \/ (CommentUndislike /\ Room)
  \/ (DoSubscribe /\ Room) \/ (DoUnsubscribe /\ Room)
  \/ (AddComment /\ Room) \/ (EditComment /\ Room) \/ (RemoveComment /\ Room)
  \/ (EditVideo /\ Room) \/ (RemoveVideo /\ Room) \/ (AddView /\ Room)

SpecAll == InitAll /\ [][NextAll]_vars

\* C18: a request of any mutating handler that is answered 400 (invalid
\* input, already in the desired state), 401, 403 or 404 leaves users,
\* videos and comments exactly as they were before the request.
C18_FailStep ==
  last'.status \in {400, 401, 403, 404}
  => (users' = users /\ videos' = videos /\ comments' = comments)

C18_NoPartialWrite == [][C18_FailStep]_vars

\* after a like of video 1 has been stored, u1 is refused the update of
\* u2's comment
C18_Witness ==
  /\ last.op = "updateComment" /\ last.status = 403 /\ last.actor = "u1"
  /\ Exists(comments, last.id) /\ comments[last.id].user = "u2"
  /\ comments[last.id].content = "c0"
  /\ videos[1].likes # <<>>

\* ======================================================================
\*  GET /videos/:id/recommended
\* ======================================================================

MaxCatalog == 17

\* .limit(15) of the first query, 15 - length of the second
RecLimit == 15

\* if (recommendedVideos.length < 10)
RecThreshold == 10

\* A find() filter on _id: the ids excluded by $ne and by $nin, and the
\* category asked for ("" when the filter has no category).
Filter(ne, nin, category) == [ne |-> ne, nin |-> nin, category |-> category]

\* { _id: { $ne: id }, category: currentVideo.category }
CategoryFilter(cat, id) == Filter({id}, {}, cat[id].category)

\* { _id: { $ne: id }, _id: { $nin: [...] } }: an object literal that names
\* the property _id twice keeps the value written last
PopularFilter(cat, id, selected) == Filter({}, Range(selected), "")

Matching(cat, f) ==
  {i \in DOMAIN cat : /\ i \notin f.ne
                      /\ i \notin f.nin
                      /\ (f.category = "" \/ cat[i].category = f.category)}

\* the order of two documents with equal sort keys: "desc" is newest
\* first (ids are handed out in creation order), "asc" oldest first
TieOrders == {"asc", "desc"}

Before(cat, x, y, tie) ==
  \/ cat[x].views > cat[y].views
  \/ cat[x].views = cat[y].views /\ (IF tie = "desc" THEN x > y ELSE x < y)

\* .sort({ views: -1, ... }) of the documents ids, ties in the order tie
RECURSIVE SortByViews(_, _, _)
SortByViews(cat, ids, tie) ==
  IF ids = {} THEN <<>>
  ELSE LET x == CHOOSE y \in ids : \A z \in ids \ {y} : Before(cat, y, z, tie)
       IN <<x>> \o SortByViews(cat, ids \ {x}, tie)

\* .limit(n)
Limit(seq, n) == SubSeq(seq, 1, IF n < Len(seq) THEN n ELSE Len(seq))

\* The two queries.  The first sorts by views, then createdAt, both
\* descending.  The second sorts by views only: the order among equal
\* views is whatever the store produces, tie.
Recommended(cat, id, tie) ==
  LET recommendedVideos ==
        Limit(SortByViews(cat, Matching(cat, CategoryFilter(cat, id)), "desc"),
              RecLimit)
      popularVideos ==
        Limit(SortByViews(cat, Matching(cat, PopularFilter(cat, id, recommendedVideos)),
                          tie),
              RecLimit - Len(recommendedVideos))
  IN IF Len(recommendedVideos) < RecThreshold
     THEN recommendedVideos \o popularVideos
     ELSE recommendedVideos

GetRecommended(id, tie) ==
  /\ UNCHANGED <<videos, comments, users, nextId, reqs, scen>>
  /\ IF ~Exists(videos, id)
     THEN /\ last' = Resp("recommended", "video", id, Anon, 404, 0, 0, 0, 0)
          /\ rec' = <<>>
     ELSE /\ rec' = Recommended(videos, id, tie)
          /\ last' = [Resp("recommended", "video", id, Anon, 200, 0, 0, 0, 0)
                        EXCEPT !.n = Len(rec')]

Recommend ==
  \E id \in 1..(MaxCatalog + 1), tie \in TieOrders : GetRecommended(id, tie)

\* view counts of a catalog of n videos: all equal, rising with the id,
\* falling with the id, repeating
ViewPatterns == 0..3

ViewsOf(p, i, n) ==
  CASE p = 0 -> 0
    [] p = 1 -> i
    [] p = 2 -> n - i
    [] OTHER -> i % 3

\* n videos, the first k of them in one category and the others in
\* another
Catalog(n, k, p) ==
  [i \in 1..n |-> [NewVideo("u1") EXCEPT !.category = IF i <= k THEN "Music" ELSE "Sports",
                                         !.views = ViewsOf(p, i, n)]]

InitRec ==
  /\ \E n \in 1..MaxCatalog, p \in ViewPatterns :
       \E k \in 0..n : videos = Catalog(n, k, p)
  /\ comments = <<>>
  /\ users = NoUsers
  /\ rec = <<>>
  /\ nextId = 1
  /\ reqs = <<>>
  /\ last = NoResp
  /\ scen = 0

NextRec == Recommend

SpecRec == InitRec /\ [][NextRec]_vars

\* C19: the answer of recommended-videos for a stored source video never
\* holds the source video, whatever the catalog, the view counts and the
\* order of equal view counts.
C19_NoSelf ==
  (last.op = "recommended" /\ last.status = 200)
  => \A i \in 1..Len(rec) : rec[i] # last.id

\* seq holds the m most-viewed members of pool, in falling order of views
TopByViews(cat, seq, pool, m) ==
  /\ Len(seq) = m
  /\ Range(seq) \subseteq pool
  /\ \A i, j \in 1..Len(seq) : i < j => seq[i] # seq[j] /\ cat[seq[i]].views >= cat[seq[j]].views
  /\ \A x \in pool \ Range(seq) : \A i \in 1..Len(seq) : cat[seq[i]].views >= cat[x].views

\* C20: the answer has at most 15 entries, none twice.  With n the number
\* of videos the same-category query gives (the other videos of the
\* source's category, most viewed first, cut at 15): if n >= 10 the
\* answer is those n; if n < 10 it is those n followed by the
\* min(15 - n, number of eligible videos) most-viewed eligible videos,
\* the eligible ones being those neither selected already nor the source.
C20_SizeAndThreshold ==
  (last.op = "recommended" /\ last.status = 200) =>
    LET id == last.id
        same == {i \in DOMAIN videos : i # id /\ videos[i].category = videos[id].category}
        n == IF Cardinality(same) < 15 THEN Cardinality(same) ELSE 15
        head == SubSeq(rec, 1, IF n < Len(rec) THEN n ELSE Len(rec))
        tail == SubSeq(rec, n + 1, Len(rec))
        eligible == (DOMAIN videos \ Range(head)) \ {id}
        m == IF 15 - n < Cardinality(eligible) THEN 15 - n ELSE Cardinality(eligible)
    IN /\ Len(rec) <= 15
       /\ \A i, j \in 1..Len(rec) : i < j => rec[i] # rec[j]
       /\ TopByViews(videos, head, same, n)
       /\ IF n >= 10 THEN tail = <<>> ELSE TopByViews(videos, tail, eligible, m)

\* ======================================================================
\*  Views of a video under concurrent requests
\* ======================================================================

\* a completed increment-view request and the count it returned
ViewReq(id, a, st, n) ==
  [op |-> "view", kind |-> "video", id |-> id, actor |-> a, pc |-> "done",
   status |-> st, n |-> n]

\* an update request that has read its video: doc is the document in
\* memory with the fields of the body already assigned
UpdReq(id, a, pc, st, doc) ==
  [op |-> "updateVideo", kind |-> "video", id |-> id, actor |-> a, pc |-> pc,
   status |-> st, doc |-> doc]

\* POST /videos/:id/view: one findByIdAndUpdate with $inc, new: true
ViewNow ==
  \E id \in VideoIds, a \in Principals :
    /\ Len(reqs) < MaxReqs
    /\ SameTarget("video", id)
    /\ UNCHANGED <<comments, nextId, last, scen, subVars>>
    /\ IF ~Exists(videos, id)
       THEN /\ reqs' = Append(reqs, ViewReq(id, a, 404, 0))
            /\ UNCHANGED videos
       ELSE /\ videos' = [videos EXCEPT ![id].views = @ + 1]
            /\ reqs' = Append(reqs, ViewReq(id, a, 200, videos[id].views + 1))

\* PUT /videos/:id up to its save(): authenticate, findById, the
\* ownership check and the assignments
StartUpdate ==
  \E id \in VideoIds, a \in Principals, title \in {"", "t1"}, category \in {"", "Music"} :
    /\ Len(reqs) < MaxReqs
    /\ SameTarget("video", id)
    /\ UNCHANGED <<videos, comments, nextId, last, scen, subVars>>
    /\ reqs' = Append(reqs,
         IF ~Authenticated(a) THEN UpdReq(id, a, "done", 401, <<>>)
         ELSE IF ~Exists(videos, id) THEN UpdReq(id, a, "done", 404, <<>>)
         ELSE IF ~MayModify(videos[id], a) THEN UpdReq(id, a, "done", 403, <<>>)
         ELSE UpdReq(id, a, "saving", 0,
                     [videos[id] EXCEPT !.title = Trim(OrElse(title, @)),
                                        !.category = OrElse(category, @)]))

\* what save() writes of an updated video: the whole document in memory
MutSaveWholeDoc(cur, doc) == doc

\* what save() writes of an updated video: the modified paths title and
\* category ($set); likes, dislikes, views and __v are not sent
SaveFields(cur, doc) ==
  [cur EXCEPT !.title = doc.title, !.category = doc.category]

\* await video.save(); res.json(video)
SaveUpdate ==
  \E r \in 1..Len(reqs) :
    LET q == reqs[r]
    IN /\ q.op = "updateVideo" /\ q.pc = "saving"
       /\ UNCHANGED <<comments, nextId, last, scen, subVars>>
       /\ IF ~Exists(videos, q.id) \/ ~ValidVideo(q.doc)
          THEN /\ reqs' = [reqs EXCEPT ![r].pc = "done", ![r].status = 500]
               /\ UNCHANGED videos
          ELSE /\ reqs' = [reqs EXCEPT ![r].pc = "done", ![r].status = 200]
               /\ videos' = [videos EXCEPT ![q.id] = SaveFields(videos[q.id], q.doc)]

InitView == InitEng

NextView ==
  \/ StartLike \/ StartUnlike \/ StartDislike \/ StartUndislike \/ Save
  \/ ViewNow \/ StartUpdate \/ SaveUpdate

SpecView == InitView /\ [][NextView]_vars

\* the increment-view requests among the first k requests that were answered 200
ViewsDone(k) == {r \in 1..k : reqs[r].op = "view" /\ reqs[r].status = 200}

\* C21: no step lowers the views of a video; the views of the video equal
\* the number of successful increment-view requests so far, whatever
\* like, dislike and update requests on it are in flight or done; and the
\* i-th of them returned i, the count after its own increment.
C21_ViewStep ==
  \A i \in DOMAIN videos : Exists(videos', i) => videos'[i].views >= videos[i].views

C21_ViewCount ==
  /\ \A i \in DOMAIN videos :
       videos[i].views = Cardinality({r \in ViewsDone(Len(reqs)) : reqs[r].id = i})
  /\ \A r \in ViewsDone(Len(reqs)) : reqs[r].n = Cardinality(ViewsDone(r))

C21_ViewsAtomic == [][C21_ViewStep]_vars /\ []C21_ViewCount

\* an update read the video before any view, two views were counted, and
\* the update was saved after them
C21_Witness ==
  /\ Len(reqs) = 3
  /\ reqs[1].op = "updateVideo" /\ reqs[1].status = 200 /\ reqs[1].doc.views = 0
  /\ reqs[2].op = "view" /\ reqs[3].op = "view" /\ reqs[3].n = 2
  /\ videos[1].views = 2 /\ videos[1].title = "t1"

\* ----------------------------------------------------------------------
\*  Further properties of the combined runs (SpecAll)
\* ----------------------------------------------------------------------

\* C22: a request without a resolved principal changes neither likes, nor
\* dislikes, nor views of any video.
C22_AnonStep ==
  last'.actor = Anon =>
    \A i \in DOMAIN videos :
      Exists(videos', i) => /\ videos'[i].likes = videos[i].likes
                            /\ videos'[i].dislikes = videos[i].dislikes
                            /\ videos'[i].views = videos[i].views

C22_AnonymousReadOnly == [][C22_AnonStep]_vars

\* ======================================================================
\*  Pagination of GET /videos and GET /videos/category/:category
\* ======================================================================

MaxQueryLen == 2

\* characters of a query value: a sign, digits, a letter
QueryChars == {"-", "0", "1", "7", "a"}

Digits == {"0", "1", "7"}

DigitValue(ch) == CASE ch = "0" -> 0 [] ch = "1" -> 1 [] OTHER -> 7

\* req.query.page / req.query.limit: absent, or a text
Absent == [given |-> FALSE, text |-> <<>>]

QueryValues ==
  {Absent} \cup
  {[given |-> TRUE, text |-> t] :
     t \in UNION {[1..n -> QueryChars] : n \in 0..MaxQueryLen}}

NaN == [nan |-> TRUE, val |-> 0]

\* the value of the longest prefix of text made of digits, continuing acc;
\* seen tells whether a digit has been read
RECURSIVE ParseDigits(_, _, _)
ParseDigits(text, acc, seen) ==
  IF text = <<>> \/ Head(text) \notin Digits
  THEN IF seen THEN [nan |-> FALSE, val |-> acc] ELSE NaN
  ELSE ParseDigits(Tail(text), 10 * acc + DigitValue(Head(text)), TRUE)

\* parseInt(q): undefined gives NaN; an optional sign, then the leading
\* digits; NaN when there is none
ParseInt(q) ==
  IF ~q.given \/ q.text = <<>> THEN NaN
  ELSE IF Head(q.text) = "-"
  THEN LET r == ParseDigits(Tail(q.text), 0, FALSE)
       IN IF r.nan THEN NaN ELSE [nan |-> FALSE, val |-> 0 - r.val]
  ELSE ParseDigits(q.text, 0, FALSE)

\* parseInt(...) || d: NaN and 0 are falsy
OrDefault(r, d) == IF r.nan \/ r.val = 0 THEN d ELSE r.val

\* the answer of a list request: the query it was given and the page,
\* limit and skip the handler computed; the store rejects a negative skip
\* and the catch answers 500
RespList(op, pageQ, limitQ) ==
  LET page == OrDefault(ParseInt(pageQ), 1)
      limit == OrDefault(ParseInt(limitQ), 20)
      skip == (page - 1) * limit
  IN [op |-> op, kind |-> "video", id |-> 0, actor |-> Anon,
      status |-> IF skip < 0 THEN 500 ELSE 200,
      pageQ |-> pageQ, limitQ |-> limitQ,
      page |-> page, limit |-> limit, skip |-> skip]

\* a list request that has arrived
ListReq(op, pageQ, limitQ) == [op |-> op, pageQ |-> pageQ, limitQ |-> limitQ]

ListVideos ==
  /\ reqs # <<>>
  /\ Head(reqs).op = "listVideos"
  /\ last' = RespList("listVideos", Head(reqs).pageQ, Head(reqs).limitQ)
  /\ reqs' = Tail(reqs)
  /\ UNCHANGED <<videos, comments, users, nextId, scen, rec>>

ListByCategory ==
  /\ reqs # <<>>
  /\ Head(reqs).op = "listByCategory"
  /\ last' = RespList("listByCategory", Head(reqs).pageQ, Head(reqs).limitQ)
  /\ reqs' = Tail(reqs)
  /\ UNCHANGED <<videos, comments, users, nextId, scen, rec>>

\* one list request with any page and limit input
InitPage ==
  /\ videos = (1 :> NewVideo("u1")) @@ (2 :> NewVideo("u2"))
  /\ comments = <<>>
  /\ users = NoUsers
  /\ rec = <<>>
  /\ nextId = 1
  /\ \E op \in {"listVideos", "listByCategory"}, pageQ \in QueryValues,
        limitQ \in QueryValues : reqs = <<ListReq(op, pageQ, limitQ)>>
  /\ last = NoResp
  /\ scen = 0

NextPage == ListVideos \/ ListByCategory

SpecPage == InitPage /\ [][NextPage]_vars

\* a query value that is an integer: an optional sign and digits only
IsInteger(q) ==
  /\ q.given
  /\ LET body == IF q.text # <<>> /\ Head(q.text) = "-" THEN Tail(q.text) ELSE q.text
     IN body # <<>> /\ \A i \in 1..Len(body) : body[i] \in Digits

\* C23: for every page and limit input the effective page is at least 1
\* and the effective limit above 0; page is 1 and limit 20 when the input
\* is absent or not an integer; skip is (page - 1) * limit and not
\* negative.
C23_Pagination ==
  last.op \in {"listVideos", "listByCategory"} =>
    /\ last.page >= 1
    /\ last.limit > 0
    /\ ~IsInteger(last.pageQ) => last.page = 1
    /\ ~IsInteger(last.limitQ) => last.limit = 20
    /\ last.skip = (last.page - 1) * last.limit
    /\ last.skip >= 0

\* ======================================================================
\*  Uploads and the category of stored videos
\* ======================================================================

\* an id no stored video has
FreshVideoId == CHOOSE i \in VideoIds : ~Exists(videos, i)

\* new Video({ title, ..., category: category || 'Entertainment' })
NewUpload(a, title, category) ==
  [NewVideo(a) EXCEPT !.title = Trim(title),
                      !.category = OrElse(category, "Entertainment")]

\* POST /videos.  files tells whether both the video and the thumbnail
\* file came with the request.
CreateVideo(a, files, title, category) ==
  /\ \E i \in VideoIds : ~Exists(videos, i)
  /\ UNCHANGED <<comments, nextId, reqs, scen, subVars>>
  /\ IF ~Authenticated(a)
     THEN /\ last' = Resp("createVideo", "video", 0, a, 401, 0, 0, 0, 0)
          /\ UNCHANGED videos
     ELSE IF ~files
     THEN /\ last' = Resp("createVideo", "video", 0, a, 400, 0, 0, 0, 0)
          /\ UNCHANGED videos
     ELSE IF ~ValidVideo(NewUpload(a, title, category))
     THEN /\ last' = Resp("createVideo", "video", 0, a, 500, 0, 0, 0, 0)
          /\ UNCHANGED videos
     ELSE /\ videos' = (FreshVideoId :> NewUpload(a, title, category)) @@ videos
          /\ last' = Resp("createVideo", "video", FreshVideoId, a, 201, 0, 0, 0, 0)

UploadVideo ==
  \E a \in Principals, files \in BOOLEAN, title \in TitleInputs,
     category \in CategoryInputs :
    CreateVideo(a, files, title, category)

\* no video stored yet
InitCat ==
  /\ videos = <<>>
  /\ comments = <<>>
  /\ users = NoUsers
  /\ rec = <<>>
  /\ nextId = 1
  /\ reqs = <<>>
  /\ last = NoResp
  /\ scen = 0

NextCat == UploadVideo \/ EditVideo

SpecCat == InitCat /\ [][NextCat]_vars

\* C24: every stored video has a category of the enumeration; and an
\* upload by an authenticated user with both files and a title is stored
\* whatever its category input: with that category when it is in the
\* enumeration, with Entertainment when it is absent or not in it.
C24_Enumerated == \A i \in DOMAIN videos : videos[i].category \in Categories

C24_CreateStep ==
  (last'.op = "createVideo" /\ Authenticated(last'.actor)) =>
    \A c \in CategoryInputs :
      CreateVideo(last'.actor, TRUE, "t1", c) =>
        /\ last'.status = 201
        /\ Exists(videos', last'.id) /\ ~Exists(videos, last'.id)
        /\ videos'[last'.id].category = (IF c \in Categories THEN c ELSE "Entertainment")

C24_CategoryDefault == [][C24_CreateStep]_vars /\ []C24_Enumerated

\* ----------------------------------------------------------------------
\*  Further properties of the comment runs (SpecTree)
\* ----------------------------------------------------------------------

\* C25: every stored comment with a parentComment refers to a stored
\* comment.
C25_NoDanglingParent ==
  \A c \in DOMAIN comments :
    comments[c].parentComment # NullId => Exists(comments, comments[c].parentComment)

\* C26: for every stored comment P, the ids in P.replies are exactly the
\* stored comments whose parentComment is P, none listed twice.
C26_RepliesInSync ==
  \A p \in DOMAIN comments :
    /\ Range(comments[p].replies) = {c \in DOMAIN comments : comments[c].parentComment = p}
    /\ \A i, j \in 1..Len(comments[p].replies) :
         i < j => comments[p].replies[i] # comments[p].replies[j]

\* ======================================================================
\*  Creates and cascading deletes, interleaved at their awaits
\* ======================================================================

\* the video the interleaved requests are about
CascadeVideos == {1}

\* a request between two awaits: new is the id of the comment a create
\* has saved, parent the parentCommentId of a create or the parentComment
\* a delete has read
TreeReq(op, id, a, pc, st, parent, new) ==
  [op |-> op, id |-> id, actor |-> a, pc |-> pc, status |-> st,
   parent |-> parent, new |-> new]

\* POST /videos/:id/comments up to comment.save(): the content check and
\* Video.exists
StartCreate ==
  \E vid \in CascadeVideos, a \in Users, content \in {"c1"}, parent \in ParentChoices :
    /\ Len(reqs) < MaxReqs
    /\ UNCHANGED <<videos, comments, nextId, last, scen, subVars>>
    /\ reqs' = Append(reqs,
         IF ~Authenticated(a) THEN TreeReq("createComment", vid, a, "done", 401, parent, 0)
         ELSE IF content = "" THEN TreeReq("createComment", vid, a, "done", 400, parent, 0)
         ELSE IF ~Exists(videos, vid)
         THEN TreeReq("createComment", vid, a, "done", 404, parent, 0)
         ELSE TreeReq("createComment", vid, a, "save", 0, parent, 0))

\* await comment.save()
SaveComment ==
  \E r \in 1..Len(reqs) :
    LET q == reqs[r]
    IN /\ q.op = "createComment" /\ q.pc = "save"
       /\ nextId <= MaxComments
       /\ comments' = (nextId :> [NewComment(q.actor, q.id, q.parent)
                                   EXCEPT !.content = "c1"]) @@ comments
       /\ nextId' = nextId + 1
       /\ reqs' = [reqs EXCEPT ![r].new = nextId,
                               ![r].pc = IF q.parent = NullId THEN "done" ELSE "push",
                               ![r].status = IF q.parent = NullId THEN 201 ELSE 0]
       /\ UNCHANGED <<videos, last, scen, subVars>>

\* await Comment.findByIdAndUpdate(parentCommentId, { $push: { replies } })
PushReply ==
  \E r \in 1..Len(reqs) :
    LET q == reqs[r]
    IN /\ q.op = "createComment" /\ q.pc = "push"
       /\ comments' = IF Exists(comments, q.parent)
                      THEN [comments EXCEPT ![q.parent].replies = Append(@, q.new)]
                      ELSE comments
       /\ reqs' = [reqs EXCEPT ![r].pc = "done", ![r].status = 201]
       /\ UNCHANGED <<videos, nextId, last, scen, subVars>>

\* DELETE /videos/:id up to findByIdAndDelete
StartDeleteVideo ==
  \E id \in CascadeVideos, a \in Users :
    /\ Len(reqs) < MaxReqs
    /\ UNCHANGED <<videos, comments, nextId, last, scen, subVars>>
    /\ reqs' = Append(reqs,
         IF ~Authenticated(a) THEN TreeReq("deleteVideo", id, a, "done", 401, NullId, 0)
         ELSE IF ~Exists(videos, id) THEN TreeReq("deleteVideo", id, a, "done", 404, NullId, 0)
         ELSE IF ~MayModify(videos[id], a)
         THEN TreeReq("deleteVideo", id, a, "done", 403, NullId, 0)
         ELSE TreeReq("deleteVideo", id, a, "delete", 0, NullId, 0))

\* await Video.findByIdAndDelete(id)
DropVideo ==
  \E r \in 1..Len(reqs) :
    LET q == reqs[r]
    IN /\ q.op = "deleteVideo" /\ q.pc = "delete"
       /\ videos' = Remove(videos, {q.id})
       /\ reqs' = [reqs EXCEPT ![r].pc = "cascade"]
       /\ UNCHANGED <<comments, nextId, last, scen, subVars>>

\* await Comment.deleteMany({ video: id }); res.json
DropVideoComments ==
  \E r \in 1..Len(reqs) :
    LET q == reqs[r]
    IN /\ q.op = "deleteVideo" /\ q.pc = "cascade"
       /\ comments' = Remove(comments, CommentsOn(comments, q.id))
       /\ reqs' = [reqs EXCEPT ![r].pc = "done", ![r].status = 200]
       /\ UNCHANGED <<videos, nextId, last, scen, subVars>>

\* DELETE /comments/:id up to its first write
StartDeleteComment ==
  \E id \in CommentIds, a \in Users :
    /\ Len(reqs) < MaxReqs
    /\ UNCHANGED <<videos, comments, nextId, last, scen, subVars>>
    /\ reqs' = Append(reqs,
         IF ~Authenticated(a) THEN TreeReq("deleteComment", id, a, "done", 401, NullId, 0)
         ELSE IF ~Exists(comments, id)
         THEN TreeReq("deleteComment", id, a, "done", 404, NullId, 0)
         ELSE IF ~MayModify(comments[id], a)
         THEN TreeReq("deleteComment", id, a, "done", 403, NullId, 0)
         ELSE TreeReq("deleteComment", id, a, "cascade", 0, comments[id].parentComment, 0))

\* await Comment.deleteMany({ parentComment: id }) for a top-level
\* comment, the $pull on the parent for a reply
DropReplies ==
  \E r \in 1..Len(reqs) :
    LET q == reqs[r]
    IN /\ q.op = "deleteComment" /\ q.pc = "cascade"
       /\ comments' = IF q.parent = NullId
                      THEN Remove(comments, RepliesOf(comments, q.id))
                      ELSE PullReply(comments, q.parent, q.id)
       /\ reqs' = [reqs EXCEPT ![r].pc = "delete"]
       /\ UNCHANGED <<videos, nextId, last, scen, subVars>>

\* await Comment.findByIdAndDelete(id); res.json
DropComment ==
  \E r \in 1..Len(reqs) :
    LET q == reqs[r]
    IN /\ q.op = "deleteComment" /\ q.pc = "delete"
       /\ comments' = Remove(comments, {q.id})
       /\ reqs' = [reqs EXCEPT ![r].pc = "done", ![r].status = 200]
       /\ UNCHANGED <<videos, nextId, last, scen, subVars>>

InitCascade == InitAll

NextCascade ==
  \/ StartCreate \/ SaveComment \/ PushReply
  \/ StartDeleteVideo \/ DropVideo \/ DropVideoComments
  \/ StartDeleteComment \/ DropReplies \/ DropComment

SpecCascade == InitCascade /\ [][NextCascade]_vars

\* C27: once all requests have completed, no stored comment refers to a
\* video whose delete was answered 200, and no stored comment has as
\* parentComment a top-level comment whose delete was answered 200.
C27_ConcCascade ==
  (\A r \in 1..Len(reqs) : reqs[r].pc = "done") =>
    \A r \in 1..Len(reqs) :
      /\ (reqs[r].op = "deleteVideo" /\ reqs[r].status = 200)
           => \A c \in DOMAIN comments : comments[c].video # reqs[r].id
      /\ (reqs[r].op = "deleteComment" /\ reqs[r].status = 200 /\ reqs[r].parent = NullId)
           => \A c \in DOMAIN comments : comments[c].parentComment # reqs[r].id

\* ----------------------------------------------------------------------
\*  Further properties of the concurrent engagement runs (SpecConc)
\* ----------------------------------------------------------------------

\* the request r completes in this step with a successful save
SavedNow(r) ==
  /\ r <= Len(reqs) /\ reqs[r].pc = "read"
  /\ reqs'[r].pc = "done" /\ reqs'[r].status = 200

\* C28: a successful save of one actor's engagement request leaves every
\* other actor's entries in likes and dislikes of the target as they were
\* stored, and stores its own effect; so a like that was answered 200 is
\* in the stored likes as long as its actor sends nothing but likes,
\* whatever the other actor's requests do.
C28_SaveStep ==
  \A r \in 1..Len(reqs') :
    SavedNow(r) =>
      LET q == reqs[r]
          old == Coll(q.kind)[q.id]
          new == IF q.kind = "video" THEN videos'[q.id] ELSE comments'[q.id]
      IN /\ \A b \in Users \ {q.actor} :
              /\ Count(new.likes, b) = Count(old.likes, b)
              /\ Count(new.dislikes, b) = Count(old.dislikes, b)
         /\ q.op = "like" => Includes(new.likes, q.actor)
         /\ q.op = "unlike" => ~Includes(new.likes, q.actor)
         /\ q.op = "dislike" => Includes(new.dislikes, q.actor)
         /\ q.op = "undislike" => ~Includes(new.dislikes, q.actor)

C28_LikeKept ==
  \A r \in 1..Len(reqs) :
    (/\ reqs[r].op = "like" /\ reqs[r].pc = "done" /\ reqs[r].status = 200
     /\ \A s \in 1..Len(reqs) : reqs[s].actor = reqs[r].actor => reqs[s].op = "like")
    => Includes(Coll(reqs[r].kind)[reqs[r].id].likes, reqs[r].actor)

C28_NoLostUpdate == [][C28_SaveStep]_vars /\ []C28_LikeKept

\* u1's unlike read the target before u2's like was saved and failed at
\* its own save; u2's like is stored
C28_Witness ==
  \E r, s \in 1..Len(reqs) :
    /\ reqs[r].actor = "u1" /\ reqs[r].op = "unlike" /\ reqs[r].status = 500
    /\ reqs[s].actor = "u2" /\ reqs[s].op = "like" /\ reqs[s].status = 200
    /\ Coll(reqs[s].kind)[reqs[s].id].likes = <<"u1", "u2">>
====
